---- MODULE Spec2Model ----
(***************************************************************************)
(* A model of examples/conway.rs: Conway's game of life served as a        *)
(* Minecraft world.  Game holds an atomic player_count and a mutex-guarded *)
(* State of two boards; the platform calls join() for each new player and  *)
(* update() once per tick.                                                 *)
(***************************************************************************)
EXTENDS Integers, Sequences, FiniteSets, TLC

\* ------------------------------------------------------------------ bounds
\* The source's sizes (100 x 100 cells, chunks of 16, 10 players) are scaled
\* down; the proportions that matter are kept: SIZE_X = SIZE_Z, the board is
\* not a multiple of the chunk width, more clients than MAX_PLAYERS.
GridSize == 5
ChunkWidth == 3
PlayerCap == 1
NumClients == 2
MaxQueue == 1
MaxTick == 5

\* ------------------------------------------------------- program constants
MAX_PLAYERS == PlayerCap
SIZE_X == GridSize
SIZE_Z == GridSize
BOARD_Y == 50
CHUNK == ChunkWidth
StepCadence == 4
ChunkMargin == 2
min_y == -64

VARIABLES
    player_count,   \* Game.player_count (AtomicUsize)
    board,          \* State.board: index -> BOOLEAN
    board_buf,      \* State.board_buf
    locked,         \* whether Game.state (the Mutex) is held
    join_pc,        \* per join() call in flight: where it is
    join_prev,      \* per join() call: the count fetch_update last read
    clients,        \* world.clients: id -> client
    player_list,    \* world.meta.player_list: the ids registered
    chunks,         \* world.chunks: chunk position -> blocks
    current_tick,   \* server.current_tick()
    pc,             \* where update() is
    retain_todo,    \* the clients retain() has still to visit
    joins_ok,       \* history: successful admissions
    released,       \* history: id -> number of fetch_sub calls made for it
    registered,     \* history: id -> number of player_list inserts
    dropped         \* history: the events queued by sessions when reaped

vars == <<player_count, board, board_buf, locked, join_pc, join_prev, clients,
          player_list, chunks, current_tick, pc, retain_todo, joins_ok,
          released, registered, dropped>>

Ids == 1..NumClients

\* The clients that send packets; the others only connect and disconnect.
Senders == {1}

\* usize arithmetic: fetch_sub wraps.  The model's word is narrower than the
\* target's 64 bits; only the wrap itself matters here.
UsizeModulus == 65536
WrappingSub(a, b) == (a - b + UsizeModulus) % UsizeModulus

\* Integer::div_ceil
DivCeil(a, b) == (a + b - 1) \div b

\* i32::rem_euclid for a positive modulus
RemEuclid(a, n) == ((a % n) + n) % n

\* ------------------------------------------------------------------ board
Cells == 0..(SIZE_X * SIZE_Z - 1)

EmptyBoard == [i \in Cells |-> FALSE]

\* board[pos.x as usize + pos.z as usize * SIZE_X]
CellIndex(x, z) == x + z * SIZE_X

\* ------------------------------------------------------------------ world
\* Block heights of a chunk section are sampled: the board's and the one above.
BoardHeight == BOARD_Y - min_y
Heights == {BoardHeight, BoardHeight + 1}

LocalCells == (0..(CHUNK - 1)) \X Heights \X (0..(CHUNK - 1))

EmptyChunk == [c \in LocalCells |-> "AIR"]

\* Positions are kept in half blocks, so that SIZE_X as f64 / 2.0 is exact.
spawn_pos == <<SIZE_X, 2 * (BOARD_Y + 1), SIZE_Z>>

\* ----------------------------------------------------------------- events
\* What clients send is sampled: diggings on three cells that are neighbours
\* through the wraparound, diggings off the board on each side and off the
\* board's height; movements at, below and just above height 0.
DigPositions ==
    {<<0, BOARD_Y, 0>>, <<SIZE_X - 1, BOARD_Y, 0>>, <<0, BOARD_Y, SIZE_Z - 1>>,
     <<-1, BOARD_Y, SIZE_Z - 1>>, <<SIZE_X, BOARD_Y, 0>>,
     <<0, BOARD_Y, -1>>, <<SIZE_X - 1, BOARD_Y, SIZE_Z>>,
     <<0, BOARD_Y + 1, 0>>}

MovePositions ==
    {<<1, 0, 1>>, <<-5, -2, 2 * SIZE_Z + 3>>, <<3, 1, -7>>}

Events ==
    [kind : {"Digging"}, position : DigPositions]
    \cup [kind : {"Movement"}, position : MovePositions]
    \cup [kind : {"SwingArm"}, position : {<<0, 0, 0>>}]

NewClient(tick) ==
    [created_tick |-> tick, disconnected |-> FALSE, events |-> <<>>,
     position |-> <<0, 0, 0>>, teleported |-> FALSE, messages |-> 0]

\* The ids of S in the order world.clients iterates them.
RECURSIVE IterOrder(_)
IterOrder(S) ==
    IF S = {} THEN <<>>
    ELSE LET m == CHOOSE x \in S : \A y \in S : x <= y
         IN <<m>> \o IterOrder(S \ {m})

\* ------------------------------------------------------------------- init
\* Mutant: no chunk is created past the first one of the board.
InitChunkPositionsOneChunk ==
    {<<chunk_x, chunk_z>> :
        chunk_x \in (-ChunkMargin)..0, chunk_z \in (-ChunkMargin)..0}

\* The chunks init() creates: chunk_z runs over div_ceil(SIZE_X, 16) and
\* chunk_x over div_ceil(SIZE_Z, 16), as written.
InitChunkPositions ==
    {<<chunk_x, chunk_z>> :
        chunk_x \in (-ChunkMargin)..(DivCeil(SIZE_Z, CHUNK) + ChunkMargin - 1),
        chunk_z \in (-ChunkMargin)..(DivCeil(SIZE_X, CHUNK) + ChunkMargin - 1)}

\* main(): Game { player_count: 0, state: two boards of false }, no world yet.
Init ==
    /\ player_count = 0
    /\ board = EmptyBoard
    /\ board_buf = EmptyBoard
    /\ locked = FALSE
    /\ join_pc = [c \in Ids |-> "idle"]
    /\ join_prev = [c \in Ids |-> 0]
    /\ clients = [d \in {} |-> NewClient(0)]
    /\ player_list = {}
    /\ chunks = [p \in {} |-> EmptyChunk]
    /\ current_tick = 0
    /\ pc = "boot"
    /\ retain_todo = <<>>
    /\ joins_ok = 0
    /\ released = [c \in Ids |-> 0]
    /\ registered = [c \in Ids |-> 0]
    /\ dropped = {}

InitWorld ==
    /\ pc = "boot"
    /\ chunks' = [p \in InitChunkPositions |-> EmptyChunk]
    /\ pc' = "idle"
    /\ UNCHANGED <<player_count, board, board_buf, locked, join_pc, join_prev,
                   clients, player_list, current_tick, retain_todo, joins_ok,
                   released, registered, dropped>>

\* ------------------------------------------------------------------- join
\* fetch_update: load, then compare-exchange until it succeeds or the
\* closure returns None.
JoinLoad(c) ==
    /\ pc # "boot"
    /\ join_pc[c] = "idle"
    /\ join_prev' = [join_prev EXCEPT ![c] = player_count]
    /\ join_pc' = [join_pc EXCEPT ![c] = "loaded"]
    /\ UNCHANGED <<player_count, board, board_buf, locked, clients, player_list,
                   chunks, current_tick, pc, retain_todo, joins_ok, released,
                   registered, dropped>>

\* Mutant: the capacity test is off by one.
JoinClosureOffByOne(count) == IF count <= MAX_PLAYERS THEN <<count + 1>> ELSE <<>>

\* (count < MAX_PLAYERS).then(|| count + 1)
JoinClosure(count) == IF count < MAX_PLAYERS THEN <<count + 1>> ELSE <<>>

\* Mutant: a plain store of the new count instead of the compare-exchange.
JoinCasBlind(c) ==
    /\ join_pc[c] = "loaded"
    /\ JoinClosure(join_prev[c]) # <<>>
    /\ player_count' = JoinClosure(join_prev[c])[1]
    /\ join_pc' = [join_pc EXCEPT ![c] = "Ok"]
    /\ joins_ok' = joins_ok + 1
    /\ UNCHANGED <<join_prev, board, board_buf, locked, clients, player_list,
                   chunks, current_tick, pc, retain_todo, released, registered,
                   dropped>>

JoinCas(c) ==
    /\ join_pc[c] = "loaded"
    /\ JoinClosure(join_prev[c]) # <<>>
    /\ IF player_count = join_prev[c]
       THEN /\ player_count' = JoinClosure(join_prev[c])[1]
            /\ join_pc' = [join_pc EXCEPT ![c] = "Ok"]
            /\ joins_ok' = joins_ok + 1
            /\ UNCHANGED join_prev
       ELSE /\ join_prev' = [join_prev EXCEPT ![c] = player_count]
            /\ UNCHANGED <<player_count, join_pc, joins_ok>>
    /\ UNCHANGED <<board, board_buf, locked, clients, player_list, chunks,
                   current_tick, pc, retain_todo, released, registered,
                   dropped>>

JoinFull(c) ==
    /\ join_pc[c] = "loaded"
    /\ JoinClosure(join_prev[c]) = <<>>
    /\ join_pc' = [join_pc EXCEPT ![c] = "The server is full!"]
    /\ UNCHANGED <<player_count, board, board_buf, locked, join_prev, clients,
                   player_list, chunks, current_tick, pc, retain_todo, joins_ok,
                   released, registered, dropped>>

\* join() returned Ok: the platform puts the client into the world, between
\* two ticks, with the tick of its creation.
JoinReturnOk(c) ==
    /\ join_pc[c] = "Ok"
    /\ pc = "idle"
    /\ clients' = [d \in DOMAIN clients \cup {c} |->
                      IF d = c THEN NewClient(current_tick) ELSE clients[d]]
    /\ join_pc' = [join_pc EXCEPT ![c] = "joined"]
    /\ join_prev' = [join_prev EXCEPT ![c] = 0]
    /\ UNCHANGED <<player_count, board, board_buf, locked, player_list, chunks,
                   current_tick, pc, retain_todo, joins_ok, released,
                   registered, dropped>>

\* join() returned Err: the platform disconnects the candidate, who may come
\* back.
JoinReturnErr(c) ==
    /\ join_pc[c] = "The server is full!"
    /\ join_pc' = [join_pc EXCEPT ![c] = "idle"]
    /\ join_prev' = [join_prev EXCEPT ![c] = 0]
    /\ UNCHANGED <<player_count, board, board_buf, locked, clients, player_list,
                   chunks, current_tick, pc, retain_todo, joins_ok, released,
                   registered, dropped>>

\* ------------------------------------------------------------ environment
\* The platform queues what a connected client sent; a movement packet also
\* moves the client.
Enqueue(c, e) ==
    /\ pc = "idle"
    /\ c \in DOMAIN clients
    /\ ~clients[c].disconnected
    /\ Len(clients[c].events) < MaxQueue
    /\ clients' = [clients EXCEPT
                      ![c].events = Append(@, e),
                      ![c].position = IF e.kind = "Movement" THEN e.position ELSE @]
    /\ UNCHANGED <<player_count, board, board_buf, locked, join_pc, join_prev,
                   player_list, chunks, current_tick, pc, retain_todo, joins_ok,
                   released, registered, dropped>>

Disconnect(c) ==
    /\ pc = "idle"
    /\ c \in DOMAIN clients
    /\ ~clients[c].disconnected
    /\ clients' = [clients EXCEPT ![c].disconnected = TRUE]
    /\ UNCHANGED <<player_count, board, board_buf, locked, join_pc, join_prev,
                   player_list, chunks, current_tick, pc, retain_todo, joins_ok,
                   released, registered, dropped>>

\* ----------------------------------------------------------------- update
UpdateBegin ==
    /\ pc = "idle"
    /\ current_tick < MaxTick
    /\ pc' = "retain"
    /\ retain_todo' = IterOrder(DOMAIN clients)
    /\ UNCHANGED <<player_count, board, board_buf, locked, join_pc, join_prev,
                   clients, player_list, chunks, current_tick, joins_ok,
                   released, registered, dropped>>

\* Mutant: every client created up to this tick is onboarded.
OnboardingLate(client, tick) == client.created_tick <= tick

\* if client.created_tick() == server.current_tick()
Onboarding(client, tick) == client.created_tick = tick

\* client.teleport(pos, ..): the client is moved and flagged as teleported in
\* this tick.
Teleport(client, pos) == [client EXCEPT !.position = pos, !.teleported = TRUE]

\* set_game_mode, teleport(spawn_pos, 0.0, 0.0), two send_message calls
Onboard(client) == [Teleport(client, spawn_pos) EXCEPT !.messages = @ + 2]

\* Mutant: the reap test is the else branch of the onboarding test.
ReapedElseBranch(client) == client.disconnected /\ ~client.teleported

\* if client.is_disconnected()
Reaped(client) == client.disconnected

\* Mutant: the closure keeps every client.
RetainVerdictKeep(client) == TRUE

\* What the closure returns: false drops the client from world.clients.
RetainVerdict(client) == ~Reaped(client)

\* Mutant: the queue of a session is drained into the board before the
\* session is looked at, as if the drain came before the retain.
RetainClientAfterDrain ==
    /\ pc = "retain"
    /\ retain_todo # <<>>
    /\ LET c == Head(retain_todo)
           ev == clients[c].events
           onboarding == Onboarding(clients[c], current_tick)
           client == IF onboarding THEN Onboard(clients[c]) ELSE clients[c]
       IN /\ board' = [i \in Cells |->
                         \/ board[i]
                         \/ \E k \in 1..Len(ev) :
                               /\ ev[k].kind = "Digging"
                               /\ ev[k].position[1] \in 0..(SIZE_X - 1)
                               /\ ev[k].position[3] \in 0..(SIZE_Z - 1)
                               /\ ev[k].position[2] = BOARD_Y
                               /\ i = CellIndex(ev[k].position[1],
                                                ev[k].position[3])]
          /\ player_list' = IF onboarding THEN player_list \cup {c} ELSE player_list
          /\ registered' = IF onboarding
                           THEN [registered EXCEPT ![c] = @ + 1]
                           ELSE registered
          /\ IF Reaped(client)
             THEN /\ player_count' = WrappingSub(player_count, 1)
                  /\ released' = [released EXCEPT ![c] = @ + 1]
             ELSE UNCHANGED <<player_count, released>>
          /\ clients' = IF RetainVerdict(client)
                        THEN [clients EXCEPT ![c] = client]
                        ELSE [d \in DOMAIN clients \ {c} |-> clients[d]]
          /\ dropped' = IF RetainVerdict(client)
                        THEN dropped
                        ELSE dropped \cup {client.events[k] :
                                               k \in 1..Len(client.events)}
    /\ retain_todo' = Tail(retain_todo)
    /\ UNCHANGED <<board_buf, locked, join_pc, join_prev, chunks,
                   current_tick, pc, joins_ok>>

\* One call of the closure world.clients.retain() is given.
RetainClient ==
    /\ pc = "retain"
    /\ retain_todo # <<>>
    /\ LET c == Head(retain_todo)
           onboarding == Onboarding(clients[c], current_tick)
           client == IF onboarding THEN Onboard(clients[c]) ELSE clients[c]
       IN /\ player_list' = IF onboarding THEN player_list \cup {c} ELSE player_list
          /\ registered' = IF onboarding
                           THEN [registered EXCEPT ![c] = @ + 1]
                           ELSE registered
          /\ IF Reaped(client)
             THEN /\ player_count' = WrappingSub(player_count, 1)
                  /\ released' = [released EXCEPT ![c] = @ + 1]
             ELSE UNCHANGED <<player_count, released>>
          /\ clients' = IF RetainVerdict(client)
                        THEN [clients EXCEPT ![c] = client]
                        ELSE [d \in DOMAIN clients \ {c} |-> clients[d]]
          /\ dropped' = IF RetainVerdict(client)
                        THEN dropped
                        ELSE dropped \cup {client.events[k] :
                                               k \in 1..Len(client.events)}
    /\ retain_todo' = Tail(retain_todo)
    /\ UNCHANGED <<board, board_buf, locked, join_pc, join_prev, chunks,
                   current_tick, pc, joins_ok>>

\* self.state.lock().unwrap()
LockState ==
    /\ pc = "retain"
    /\ retain_todo = <<>>
    /\ ~locked
    /\ locked' = TRUE
    /\ pc' = "drain"
    /\ UNCHANGED <<player_count, board, board_buf, join_pc, join_prev, clients,
                   player_list, chunks, current_tick, retain_todo, joins_ok,
                   released, registered, dropped>>

\* Mutant: the height of the digging is not looked at.
DiggingAcceptedAnyHeight(pos) ==
    /\ 0 <= pos[1] /\ pos[1] < SIZE_X
    /\ 0 <= pos[3] /\ pos[3] < SIZE_Z

\* (0..SIZE_X).contains(&pos.x) && (0..SIZE_Z).contains(&pos.z) && pos.y == BOARD_Y
DiggingAccepted(pos) ==
    /\ 0 <= pos[1] /\ pos[1] < SIZE_X
    /\ 0 <= pos[3] /\ pos[3] < SIZE_Z
    /\ pos[2] = BOARD_Y

\* Mutant: height 0 itself does not count as fallen out.
FellOutStrict(pos) == pos[2] < 0

\* if position.y <= 0.0
FellOut(pos) == pos[2] <= 0

\* Mutant: a digging flips the cell.
ApplyEventToggle(st, e) ==
    CASE e.kind = "Digging" ->
            IF DiggingAccepted(e.position)
            THEN [st EXCEPT !.board[CellIndex(e.position[1], e.position[3])] = ~@]
            ELSE st
      [] e.kind = "Movement" ->
            IF FellOut(e.position)
            THEN [st EXCEPT !.client = Teleport(@, spawn_pos)]
            ELSE st
      [] OTHER -> st

\* One arm of the match on a popped event; st is [board, client].
ApplyEvent(st, e) ==
    CASE e.kind = "Digging" ->
            IF DiggingAccepted(e.position)
            THEN [st EXCEPT !.board[CellIndex(e.position[1], e.position[3])] = TRUE]
            ELSE st
      [] e.kind = "Movement" ->
            IF FellOut(e.position)
            THEN [st EXCEPT !.client = Teleport(@, spawn_pos)]
            ELSE st
      [] OTHER -> st

\* Mutant: the loop ends at the first event that is no digging and no
\* movement, and leaves it queued.
RECURSIVE DrainClientStopsAtOther(_)
DrainClientStopsAtOther(st) ==
    IF st.client.events = <<>> THEN st
    ELSE IF Head(st.client.events).kind \notin {"Digging", "Movement"} THEN st
    ELSE DrainClientStopsAtOther(
             ApplyEvent([st EXCEPT !.client.events = Tail(@)],
                        Head(st.client.events)))

\* while let Some(event) = client.pop_event()
RECURSIVE DrainClient(_)
DrainClient(st) ==
    IF st.client.events = <<>> THEN st
    ELSE DrainClient(ApplyEvent([st EXCEPT !.client.events = Tail(@)],
                                Head(st.client.events)))

\* for (_, client) in world.clients.iter_mut(); w is [board, clients].
RECURSIVE DrainAll(_, _)
DrainAll(w, todo) ==
    IF todo = <<>> THEN w
    ELSE LET c == Head(todo)
             st == DrainClient([board |-> w.board, client |-> w.clients[c]])
         IN DrainAll([board |-> st.board,
                      clients |-> [w.clients EXCEPT ![c] = st.client]],
                     Tail(todo))

DrainEvents ==
    /\ pc = "drain"
    /\ LET w == DrainAll([board |-> board, clients |-> clients],
                         IterOrder(DOMAIN clients))
       IN /\ board' = w.board
          /\ clients' = w.clients
    /\ pc' = "cadence"
    /\ UNCHANGED <<player_count, board_buf, locked, join_pc, join_prev,
                   player_list, chunks, current_tick, retain_todo, joins_ok,
                   released, registered, dropped>>

\* Mutant: the step runs every other tick.
SkipsStepEveryOther(tick) == tick % 2 # 0

\* server.current_tick() % 4 != 0
SkipsStep(tick) == tick % StepCadence # 0

\* After update() the platform sends each client what the tick changed and
\* clears its per-tick flags.
EndOfTick(cl) == [d \in DOMAIN cl |-> [cl[d] EXCEPT !.teleported = FALSE]]

\* Mutant: the early return leaves the mutex locked.
ReturnEarlyKeepsLock ==
    /\ pc = "cadence"
    /\ SkipsStep(current_tick)
    /\ pc' = "idle"
    /\ clients' = EndOfTick(clients)
    /\ current_tick' = current_tick + 1
    /\ UNCHANGED <<player_count, board, board_buf, locked, join_pc, join_prev,
                   player_list, chunks, retain_todo, joins_ok, released,
                   registered, dropped>>

\* The early return: the guard is dropped, and the platform counts the tick.
ReturnEarly ==
    /\ pc = "cadence"
    /\ SkipsStep(current_tick)
    /\ locked' = FALSE
    /\ pc' = "idle"
    /\ clients' = EndOfTick(clients)
    /\ current_tick' = current_tick + 1
    /\ UNCHANGED <<player_count, board, board_buf, join_pc, join_prev,
                   player_list, chunks, retain_todo, joins_ok, released,
                   registered, dropped>>

\* Mutant: the row is taken with a divisor that is not the row length.
CellZWide(i) == i \div (SIZE_Z + 1)

\* let cx = (i % SIZE_X) as i32; let cz = (i / SIZE_Z) as i32;
CellX(i) == i % SIZE_X
CellZ(i) == i \div SIZE_Z

\* Mutant: a coordinate off the board is clamped to the edge, not wrapped.
Clamped(a, n) == IF a < 0 THEN 0 ELSE IF a >= n THEN n - 1 ELSE a
NeighbourIndexClamped(x, z) == Clamped(x, SIZE_X) + Clamped(z, SIZE_Z) * SIZE_X

\* x.rem_euclid(SIZE_X) + z.rem_euclid(SIZE_Z) * SIZE_X
NeighbourIndex(x, z) == RemEuclid(x, SIZE_X) + RemEuclid(z, SIZE_Z) * SIZE_X

\* Mutant: the cell itself is counted with its neighbours.
LiveCountWithSelf(b, cx, cz) ==
    Cardinality({n \in ((cx - 1)..(cx + 1)) \X ((cz - 1)..(cz + 1)) :
                    b[RemEuclid(n[1], SIZE_X) + RemEuclid(n[2], SIZE_Z) * SIZE_X]})

\* The two loops over z in cz-1..=cz+1 and x in cx-1..=cx+1, the cell left out.
LiveCount(b, cx, cz) ==
    Cardinality({n \in ((cx - 1)..(cx + 1)) \X ((cz - 1)..(cz + 1)) :
                    /\ ~(n[1] = cx /\ n[2] = cz)
                    /\ b[NeighbourIndex(n[1], n[2])]})

\* The value the closure gives cell i of board_buf.
NextCell(b, i) ==
    LET cx == CellX(i)
        cz == CellZ(i)
        live_count == LiveCount(b, cx, cz)
    IN IF b[CellIndex(cx, cz)]
       THEN live_count \in 2..3
       ELSE live_count = 3

\* board_buf.par_iter_mut().enumerate().for_each(...)
NextGen(b) == [i \in Cells |-> NextCell(b, i)]

StepBoard ==
    /\ pc = "cadence"
    /\ ~SkipsStep(current_tick)
    /\ board_buf' = NextGen(board)
    /\ pc' = "swap"
    /\ UNCHANGED <<player_count, board, locked, join_pc, join_prev, clients,
                   player_list, chunks, current_tick, retain_todo, joins_ok,
                   released, registered, dropped>>

\* Orders in which the workers of par_iter_mut() may get to the cells: by
\* rising index, by falling index, the even cells before the odd ones and the
\* odd ones before the even ones.
StepOrders ==
    LET n == SIZE_X * SIZE_Z
        rising == [k \in 1..n |-> k - 1]
        falling == [k \in 1..n |-> n - k]
        even == SelectSeq(rising, LAMBDA i : i % 2 = 0)
        odd == SelectSeq(rising, LAMBDA i : i % 2 = 1)
    IN {rising, falling, even \o odd, odd \o even}

\* Mutant: the closure writes the cell into the buffer it reads from.
RECURSIVE StepCellsInPlace(_, _, _)
StepCellsInPlace(b, buf, todo) ==
    IF todo = <<>> THEN b
    ELSE StepCellsInPlace([b EXCEPT ![Head(todo)] = NextCell(b, Head(todo))],
                          buf, Tail(todo))

\* The closure run on the cells of todo, one after the other: *cell is cell i
\* of board_buf, every read is of board.
RECURSIVE StepCells(_, _, _)
StepCells(b, buf, todo) ==
    IF todo = <<>> THEN buf
    ELSE StepCells(b, [buf EXCEPT ![Head(todo)] = NextCell(b, Head(todo))],
                   Tail(todo))

\* The step with the cells taken one by one, in any of the orders.
StepBoardInOrder ==
    /\ pc = "cadence"
    /\ ~SkipsStep(current_tick)
    /\ \E order \in StepOrders : board_buf' = StepCells(board, board_buf, order)
    /\ pc' = "swap"
    /\ UNCHANGED <<player_count, board, locked, join_pc, join_prev, clients,
                   player_list, chunks, current_tick, retain_todo, joins_ok,
                   released, registered, dropped>>

\* mem::swap(board, board_buf)
SwapBoards ==
    /\ pc = "swap"
    /\ board' = board_buf
    /\ board_buf' = board
    /\ pc' = "materialize"
    /\ UNCHANGED <<player_count, locked, join_pc, join_prev, clients,
                   player_list, chunks, current_tick, retain_todo, joins_ok,
                   released, registered, dropped>>

\* The chunks the two loops over chunk_x and chunk_z ask the world for.
BoardChunkPositions ==
    (0..(DivCeil(SIZE_X, CHUNK) - 1)) \X (0..(DivCeil(SIZE_Z, CHUNK) - 1))

\* Mutant: the block of a live cell is flipped, not set.
MaterializedBlockFlipped(ch, b, p, l) ==
    LET cell_x == p[1] * CHUNK + l[1]
        cell_z == p[2] * CHUNK + l[3]
    IN IF p[1] \in 0..(DivCeil(SIZE_X, CHUNK) - 1)
          /\ p[2] \in 0..(DivCeil(SIZE_Z, CHUNK) - 1)
          /\ cell_x < SIZE_X /\ cell_z < SIZE_Z /\ l[2] = BOARD_Y - min_y
       THEN IF b[cell_x + cell_z * SIZE_X] /\ ch[p][l] # "GRASS_BLOCK"
            THEN "GRASS_BLOCK" ELSE "DIRT"
       ELSE ch[p][l]

\* Mutant: the cell is looked up with x and z exchanged.
MaterializedBlockTransposed(ch, b, p, l) ==
    LET cell_x == p[1] * CHUNK + l[1]
        cell_z == p[2] * CHUNK + l[3]
    IN IF p \in BoardChunkPositions /\ cell_x < SIZE_X /\ cell_z < SIZE_Z
          /\ l[2] = BoardHeight
       THEN IF b[CellIndex(cell_z, cell_x)] THEN "GRASS_BLOCK" ELSE "DIRT"
       ELSE ch[p][l]

\* Mutant: the block is set at every height of the chunk.
MaterializedBlockAllHeights(ch, b, p, l) ==
    LET cell_x == p[1] * CHUNK + l[1]
        cell_z == p[2] * CHUNK + l[3]
    IN IF p \in BoardChunkPositions /\ cell_x < SIZE_X /\ cell_z < SIZE_Z
       THEN IF b[CellIndex(cell_x, cell_z)] THEN "GRASS_BLOCK" ELSE "DIRT"
       ELSE ch[p][l]

\* The block the loops leave at (x, y, z) of chunk p.
MaterializedBlock(ch, b, p, l) ==
    LET cell_x == p[1] * CHUNK + l[1]
        cell_z == p[2] * CHUNK + l[3]
    IN IF p \in BoardChunkPositions /\ cell_x < SIZE_X /\ cell_z < SIZE_Z
          /\ l[2] = BoardHeight
       THEN IF b[CellIndex(cell_x, cell_z)] THEN "GRASS_BLOCK" ELSE "DIRT"
       ELSE ch[p][l]

MaterializeChunks(ch, b) ==
    [p \in DOMAIN ch |-> [l \in LocalCells |-> MaterializedBlock(ch, b, p, l)]]

\* get_mut(..).unwrap() panics on a chunk the world does not hold.  After the
\* last chunk update() returns: the guard is dropped, the platform counts the
\* tick.
Materialize ==
    /\ pc = "materialize"
    /\ IF BoardChunkPositions \subseteq DOMAIN chunks
       THEN /\ chunks' = MaterializeChunks(chunks, board)
            /\ locked' = FALSE
            /\ pc' = "idle"
            /\ clients' = EndOfTick(clients)
            /\ current_tick' = current_tick + 1
       ELSE /\ pc' = "panicked"
            /\ UNCHANGED <<chunks, locked, clients, current_tick>>
    /\ UNCHANGED <<player_count, board, board_buf, join_pc, join_prev,
                   player_list, retain_todo, joins_ok, released, registered,
                   dropped>>

\* One player, who digs and moves.
Next ==
    \/ InitWorld
    \/ \E c \in Senders : JoinLoad(c)
    \/ \E c \in Senders : JoinCas(c)
    \/ \E c \in Senders : JoinReturnOk(c)
    \/ \E c \in Senders, e \in Events : Enqueue(c, e)
    \/ \E c \in Ids : Disconnect(c)
    \/ UpdateBegin
    \/ RetainClient
    \/ LockState
    \/ DrainEvents
    \/ ReturnEarly
    \/ StepBoard
    \/ SwapBoards
    \/ Materialize

Spec == Init /\ [][Next]_vars

\* More candidates than places, joining beside the tick loop; nobody sends
\* anything.
NextJoin ==
    \/ InitWorld
    \/ \E c \in Ids : JoinLoad(c)
    \/ \E c \in Ids : JoinCas(c)
    \/ \E c \in Ids : JoinFull(c)
    \/ \E c \in Ids : JoinReturnOk(c)
    \/ \E c \in Ids : JoinReturnErr(c)
    \/ \E c \in Ids : Disconnect(c)
    \/ UpdateBegin
    \/ RetainClient
    \/ LockState
    \/ DrainEvents
    \/ ReturnEarly
    \/ StepBoard
    \/ SwapBoards
    \/ Materialize

SpecJoin == Init /\ [][NextJoin]_vars

\* ---------------------------------------------------- generations at large
\* The board holding exactly the cells of S, given as <<x, z>>.
BoardOf(S) == [i \in Cells |-> \E p \in S : i = CellIndex(p[1], p[2])]

\* Every pattern on the 3 x 3 window that straddles both wraparound seams.
WindowCoords == {SIZE_X - 1, 0, 1} \X {SIZE_Z - 1, 0, 1}

\* Three cells in a row ("h", along x) or in a column ("v"), centred on c.
BlinkerCells(c, o) ==
    IF o = "h"
    THEN {<<RemEuclid(c[1] + d, SIZE_X), c[2]>> : d \in {-1, 0, 1}}
    ELSE {<<c[1], RemEuclid(c[2] + d, SIZE_Z)>> : d \in {-1, 0, 1}}

Blinker(c, o) == BoardOf(BlinkerCells(c, o))

Turned(o) == IF o = "h" THEN "v" ELSE "h"

Centres == (0..(SIZE_X - 1)) \X (0..(SIZE_Z - 1))

SamplePatterns ==
    SUBSET WindowCoords
    \cup {BlinkerCells(c, o) : c \in Centres, o \in {"h", "v"}}

\* The diggings that bring the cells of S to life, in index order.
RECURSIVE DigBurst(_)
DigBurst(S) ==
    IF S = {} THEN <<>>
    ELSE LET p == CHOOSE q \in S : \A r \in S :
                     CellIndex(q[1], q[2]) <= CellIndex(r[1], r[2])
         IN <<[kind |-> "Digging", position |-> <<p[1], BOARD_Y, p[2]>>]>>
            \o DigBurst(S \ {p})

\* The server before its first tick, one player in the world who has sent a
\* burst of diggings: the first tick (a stepping one) drains them into the
\* board and steps the pattern, the fifth steps it again.  Here the step is
\* taken cell by cell.
InitStep ==
    /\ player_count = 1
    /\ board = EmptyBoard
    /\ board_buf = EmptyBoard
    /\ locked = FALSE
    /\ join_pc = [c \in Ids |-> IF c = 1 THEN "joined" ELSE "idle"]
    /\ join_prev = [c \in Ids |-> 0]
    /\ \E S \in SamplePatterns :
          clients = [d \in {1} |-> [NewClient(0) EXCEPT !.events = DigBurst(S)]]
    /\ player_list = {}
    /\ chunks = [p \in InitChunkPositions |-> EmptyChunk]
    /\ current_tick = 0
    /\ pc = "idle"
    /\ retain_todo = <<>>
    /\ joins_ok = 1
    /\ released = [c \in Ids |-> 0]
    /\ registered = [c \in Ids |-> 0]
    /\ dropped = {}

NextStep ==
    \/ UpdateBegin
    \/ RetainClient
    \/ LockState
    \/ DrainEvents
    \/ ReturnEarly
    \/ StepBoardInOrder
    \/ SwapBoards
    \/ Materialize

SpecStep == InitStep /\ [][NextStep]_vars

\* One step of a call of update().
Update ==
    \/ UpdateBegin
    \/ RetainClient
    \/ LockState
    \/ DrainEvents
    \/ ReturnEarly
    \/ StepBoard
    \/ SwapBoards
    \/ Materialize

\* join() as one step, run between two ticks with no other join beside it:
\* fetch_update succeeds at its first compare-exchange, and the platform puts
\* the client into the world; a full server turns the candidate away.
JoinWhole(c) ==
    /\ pc = "idle"
    /\ join_pc[c] = "idle"
    /\ JoinClosure(player_count) # <<>>
    /\ player_count' = JoinClosure(player_count)[1]
    /\ joins_ok' = joins_ok + 1
    /\ clients' = [d \in DOMAIN clients \cup {c} |->
                      IF d = c THEN NewClient(current_tick) ELSE clients[d]]
    /\ join_pc' = [join_pc EXCEPT ![c] = "joined"]
    /\ UNCHANGED <<board, board_buf, locked, join_prev, player_list, chunks,
                   current_tick, pc, retain_todo, released, registered,
                   dropped>>

\* The candidates join between two ticks, and the platform's tick loop never
\* stops: while a tick is left to run, update() is called and runs to its end.
NextJoinFair ==
    \/ InitWorld
    \/ \E c \in Ids : JoinWhole(c)
    \/ \E c \in Ids : Disconnect(c)
    \/ Update

SpecJoinFair == Init /\ [][NextJoinFair]_vars /\ WF_vars(Update)

\* ================================================================= claims
RECURSIVE SumOver(_, _)
SumOver(f, S) ==
    IF S = {} THEN 0
    ELSE LET c == CHOOSE x \in S : TRUE IN f[c] + SumOver(f, S \ {c})

TotalReleases == SumOver(released, Ids)

\* C1: however the steps of concurrent joins interleave with each other and
\* with the tick loop's releases, player_count never exceeds MAX_PLAYERS; a
\* join whose last read of the count is at or above MAX_PLAYERS ends with
\* "The server is full!" and leaves the count as it was.
C1_NeverOverCapacity ==
    /\ [](player_count <= MAX_PLAYERS)
    /\ [][\A c \in Ids :
            (/\ join_pc[c] = "loaded"
             /\ join_prev[c] >= MAX_PLAYERS
             /\ join_pc'[c] # "loaded")
            => /\ join_pc'[c] = "The server is full!"
               /\ player_count' = player_count]_vars

\* Two candidates raced for the last place: one holds it, the other was
\* turned away with the count at the maximum.
C1_Witness ==
    \E c, d \in Ids :
        /\ c # d
        /\ join_pc[c] = "The server is full!"
        /\ join_pc[d] \in {"Ok", "joined"}
        /\ player_count = MAX_PLAYERS

\* C2: in every state player_count is the number of admissions less the
\* number of releases made by reaping, so no fetch_sub has wrapped the
\* unsigned count below zero.
C2_CountIsJoinsLessReleases ==
    /\ joins_ok >= TotalReleases
    /\ player_count = joins_ok - TotalReleases

\* A place was released and taken again.
C2_Witness ==
    /\ TotalReleases >= 1
    /\ joins_ok >= 2
    /\ player_count = 1

\* C3: no session is released twice, and a released session is out of the
\* registry; the call of the retain closure on a disconnected session
\* decrements the count by one and removes the session, the call on any other
\* session keeps it and leaves the count alone.
C3_ReleasedOnce ==
    /\ [](\A c \in Ids :
            /\ released[c] <= 1
            /\ released[c] = 1 => c \notin DOMAIN clients)
    /\ [][(pc = "retain" /\ retain_todo # <<>> /\ retain_todo' # retain_todo) =>
            LET c == Head(retain_todo)
            IN IF clients[c].disconnected
               THEN /\ c \notin DOMAIN clients'
                    /\ player_count' = player_count - 1
                    /\ released'[c] = released[c] + 1
               ELSE /\ c \in DOMAIN clients'
                    /\ player_count' = player_count
                    /\ released' = released]_vars

\* A session was released at least two ticks ago, and another one, still
\* connected, has been kept through a later pass.
C3_Witness ==
    \E c, d \in Ids :
        /\ released[c] = 1
        /\ d \in DOMAIN clients
        /\ ~clients[d].disconnected
        /\ clients[d].created_tick + 2 <= current_tick
        /\ player_count = 1

\* C8: a session is onboarded exactly once: its presence is registered in the
\* pass of the tick it joined at and in no other, so a session that a pass
\* has visited is registered once, whatever the number of later passes.
C8_Visited(c) ==
    \/ c \notin DOMAIN clients /\ released[c] = 1
    \/ /\ c \in DOMAIN clients
       /\ \/ clients[c].created_tick < current_tick
          \/ pc \notin {"idle", "retain"}
          \/ pc = "retain" /\ \A k \in 1..Len(retain_todo) : retain_todo[k] # c

C8_OnboardedOnce ==
    /\ [](\A c \in Ids :
            /\ registered[c] = (IF C8_Visited(c) THEN 1 ELSE 0)
            /\ registered[c] = 1 => c \in player_list)
    /\ [][\A c \in Ids :
            registered'[c] # registered[c] =>
                /\ c \in DOMAIN clients
                /\ clients[c].created_tick = current_tick
                /\ registered[c] = 0]_vars

\* A session onboarded three or more ticks ago is still registered once.
C8_Witness ==
    \E c \in Ids :
        /\ c \in DOMAIN clients
        /\ clients[c].created_tick + 3 <= current_tick
        /\ registered[c] = 1
        /\ clients[c].messages = 2

\* The game-of-life rule on the torus, stated on coordinates.
RefNeighbours(x, z) ==
    {<<(x + d[1] + SIZE_X) % SIZE_X, (z + d[2] + SIZE_Z) % SIZE_Z>> :
        d \in ({-1, 0, 1} \X {-1, 0, 1}) \ {<<0, 0>>}}

RefAlive(b, x, z) == b[x + z * SIZE_X]

RefNext(b, x, z) ==
    LET n == Cardinality({p \in RefNeighbours(x, z) : RefAlive(b, p[1], p[2])})
    IN \/ RefAlive(b, x, z) /\ n \in {2, 3}
       \/ ~RefAlive(b, x, z) /\ n = 3

\* C4: the step gives every cell (x, z) the state the rule gives it from its
\* 8 neighbours on the torus: once the closure has filled board_buf, and again
\* once the boards are swapped.
C4_StepIsToroidalLife ==
    /\ pc = "swap" =>
         \A x \in 0..(SIZE_X - 1), z \in 0..(SIZE_Z - 1) :
            board_buf[x + z * SIZE_X] = RefNext(board, x, z)
    /\ pc = "materialize" =>
         \A x \in 0..(SIZE_X - 1), z \in 0..(SIZE_Z - 1) :
            board[x + z * SIZE_X] = RefNext(board_buf, x, z)

\* Cell (0, 0) is born from three neighbours that all lie across a seam.
C4_Witness ==
    /\ pc = "swap"
    /\ board = BoardOf({<<SIZE_X - 1, 0>>, <<0, SIZE_Z - 1>>,
                        <<SIZE_X - 1, SIZE_Z - 1>>})
    /\ board_buf[CellIndex(0, 0)]

\* C5: on a board holding only a blinker, one step gives the blinker turned
\* by 90 degrees about its centre and two steps give the board back.
C5_BlinkerPeriodTwo ==
    \A c \in Centres, o \in {"h", "v"} :
        /\ (pc = "cadence" /\ board = Blinker(c, o)) =>
              /\ NextGen(board) = Blinker(c, Turned(o))
              /\ NextGen(NextGen(board)) = board
        /\ (pc = "materialize" /\ board_buf = Blinker(c, o)) =>
              board = Blinker(c, Turned(o))

\* The second step of a run that began with a blinker along x has brought it
\* back.
C5_Witness ==
    /\ current_tick = 4
    /\ pc = "materialize"
    /\ \E c \in Centres :
          /\ board = Blinker(c, "h")
          /\ board_buf = Blinker(c, "v")

\* The cells that the queued diggings on the board, at the board's height,
\* point at.
AcceptedCells(cl) ==
    LET queued == UNION {{cl[c].events[k] : k \in 1..Len(cl[c].events)} :
                            c \in DOMAIN cl}
    IN {<<e.position[1], e.position[3]>> :
            e \in {q \in queued :
                      /\ q.kind = "Digging"
                      /\ q.position[1] \in 0..(SIZE_X - 1)
                      /\ q.position[3] \in 0..(SIZE_Z - 1)
                      /\ q.position[2] = BOARD_Y}}

\* C6: draining the queues brings to life exactly the cells of the diggings
\* that lie on the board at height BOARD_Y; every other digging changes no
\* cell, nothing touches board_buf, and update() goes on.
C6_DigOnlyOnBoard ==
    [][(pc = "drain" /\ pc' # pc) =>
          /\ pc' = "cadence"
          /\ board_buf' = board_buf
          /\ \A x \in 0..(SIZE_X - 1), z \in 0..(SIZE_Z - 1) :
                board'[x + z * SIZE_X] =
                    (board[x + z * SIZE_X] \/ <<x, z>> \in AcceptedCells(clients))]_vars

\* One digging was taken in a tick without a step: one cell lives.
C6_Witness ==
    /\ pc = "cadence"
    /\ current_tick % 4 # 0
    /\ board = BoardOf({<<SIZE_X - 1, 0>>})
    /\ board_buf = EmptyBoard

\* C7: update() goes on to the step and the materialization exactly in the
\* ticks divisible by 4; in any other tick it returns after the drain, no
\* chunk and no cell of board_buf is written, and the board changes only in
\* the drain, only by cells that accepted diggings bring to life.
C7_StepEveryFourthTick ==
    [][/\ (pc = "cadence" /\ pc' # pc) =>
            IF current_tick % 4 = 0
            THEN pc' = "swap"
            ELSE /\ pc' = "idle"
                 /\ current_tick' = current_tick + 1
                 /\ <<board, board_buf, chunks>>' = <<board, board_buf, chunks>>
       /\ (pc # "boot" /\ <<board_buf, chunks>>' # <<board_buf, chunks>>) =>
            /\ current_tick % 4 = 0
            /\ pc \in {"cadence", "swap", "materialize"}
       /\ board' # board =>
            \/ /\ pc = "drain"
               /\ \A i \in Cells : board'[i] # board[i] =>
                     /\ board'[i]
                     /\ \E a \in AcceptedCells(clients) : i = a[1] + a[2] * SIZE_X
            \/ pc = "swap" /\ current_tick % 4 = 0
       /\ current_tick' # current_tick =>
            (current_tick % 4 = 0 <=> pc = "materialize")]_vars

\* Three ticks without a step have passed: a cell dug since the last step
\* lives on the board, and its block is still the one that step left.
C7_Witness ==
    /\ pc = "idle"
    /\ current_tick = 4
    /\ board[CellIndex(0, 0)]
    /\ board_buf = EmptyBoard
    /\ chunks[<<0, 0>>][<<0, BoardHeight, 0>>] = "DIRT"

\* C9: materializing the same generation a second time changes no block, and
\* right after a stepping tick the chunks are what materializing the board
\* gives.
C9_MaterializeIdempotent ==
    pc # "boot" =>
        LET once == MaterializeChunks(chunks, board)
        IN /\ MaterializeChunks(once, board) = once
           /\ (pc = "idle" /\ current_tick % 4 = 1) => once = chunks

\* The second materialization of a run is done, live and dead cells shown.
C9_Witness ==
    /\ pc = "idle"
    /\ current_tick = 5
    /\ \E p \in DOMAIN chunks, l, m \in LocalCells :
          chunks[p][l] = "GRASS_BLOCK" /\ chunks[p][m] = "DIRT"

\* C10: in the drain a client with a queued movement at height 0 or below is
\* teleported to (SIZE_X / 2, BOARD_Y + 1, SIZE_Z / 2), wherever it stood;
\* any other client is not teleported, nothing else of a client changes but
\* its queue, and movements alone change no board and no chunk.
C10_FallTeleportsToSpawn ==
    [][(pc = "drain" /\ pc' # pc) =>
          \A c \in DOMAIN clients :
             LET ev == clients[c].events
                 fell == \E k \in 1..Len(ev) :
                            ev[k].kind = "Movement" /\ ev[k].position[2] <= 0
             IN /\ c \in DOMAIN clients'
                /\ IF fell
                   THEN /\ clients'[c].position = <<SIZE_X, 2 * (BOARD_Y + 1), SIZE_Z>>
                        /\ clients'[c].teleported
                   ELSE /\ clients'[c].position = clients[c].position
                        /\ clients'[c].teleported = clients[c].teleported
                /\ clients'[c] = [clients[c] EXCEPT
                                    !.events = clients'[c].events,
                                    !.position = clients'[c].position,
                                    !.teleported = clients'[c].teleported]
                /\ (\A k \in 1..Len(ev) : ev[k].kind = "Movement") =>
                      <<board, board_buf, chunks>>' = <<board, board_buf, chunks>>]_vars

\* A client onboarded in an earlier tick has been teleported to the spawn
\* position by this tick's drain.
C10_Witness ==
    /\ pc = "cadence"
    /\ \E c \in DOMAIN clients :
          /\ clients[c].created_tick < current_tick
          /\ clients[c].teleported
          /\ clients[c].position = spawn_pos

C12_ChunksCoverBoard ==
    /\ [](pc # "boot" =>
            /\ DOMAIN chunks = InitChunkPositions
            /\ \A chunk_x \in 0..(DivCeil(SIZE_X, CHUNK) - 1),
                  chunk_z \in 0..(DivCeil(SIZE_Z, CHUNK) - 1) :
                  <<chunk_x, chunk_z>> \in DOMAIN chunks
            /\ pc # "panicked")
    /\ [][pc # "boot" => DOMAIN chunks' = DOMAIN chunks]_vars

\* Two materializations have run; the last chunk of the board has been
\* written, a chunk of the margin is as init() made it.
C12_Witness ==
    /\ pc = "idle"
    /\ current_tick = 5
    /\ chunks[<<DivCeil(SIZE_X, CHUNK) - 1, DivCeil(SIZE_Z, CHUNK) - 1>>]
             [<<0, BoardHeight, 0>>] = "DIRT"
    /\ chunks[<<-ChunkMargin, -ChunkMargin>>] = EmptyChunk

\* C13: a session found disconnected by a pass of retain is released in that
\* very call, once: the count drops by one and the session leaves the
\* registry, also when the pass is the one of the tick it joined at, where it
\* is onboarded in the same call; and while a tick is left to run, every
\* disconnected session of the registry is eventually released.
C13_DisconnectedIsReleased ==
    /\ \A c \in Ids :
          (c \in DOMAIN clients /\ clients[c].disconnected
              /\ current_tick < MaxTick)
          ~> (c \notin DOMAIN clients /\ released[c] = 1)
    /\ [][\A c \in Ids :
            (/\ pc = "retain"
             /\ retain_todo # <<>>
             /\ retain_todo' # retain_todo
             /\ Head(retain_todo) = c
             /\ clients[c].disconnected)
            => /\ released[c] = 0
               /\ released'[c] = 1
               /\ player_count' = player_count - 1
               /\ c \notin DOMAIN clients'
               /\ clients[c].created_tick = current_tick =>
                     /\ registered'[c] = registered[c] + 1
                     /\ c \in player_list']_vars

\* A session that disconnected before the first pass saw it: that pass, still
\* running, has onboarded and released it.
C13_Witness ==
    /\ pc = "retain"
    /\ current_tick = 0
    /\ \E c \in Ids :
          /\ registered[c] = 1
          /\ released[c] = 1
          /\ c \in player_list
          /\ c \notin DOMAIN clients
          /\ player_count = 0

\* The order of the phases of update(), and the platform's init() before it.
PhaseOrder ==
    {<<"boot", "idle">>, <<"idle", "retain">>, <<"retain", "drain">>,
     <<"drain", "cadence">>, <<"cadence", "idle">>, <<"cadence", "swap">>,
     <<"swap", "materialize">>, <<"materialize", "idle">>}

\* C14: update() goes through retain, drain, step, swap and materialization
\* in this order and a tick begins only when the one before has returned; the
\* retain changes no cell and no block and takes a disconnected session out
\* with its queue, the drain brings to life the accepted diggings of the
\* sessions still there and no other cell, and the step that follows in the
\* same tick computes the next generation from the board the drain left.
C14_PhasesInOrder ==
    [][/\ pc' # pc => <<pc, pc'>> \in PhaseOrder
       /\ current_tick' # current_tick =>
             /\ pc \in {"cadence", "materialize"}
             /\ pc' = "idle"
             /\ current_tick' = current_tick + 1
       /\ (pc \notin {"boot", "idle"} /\ pc' = "idle") =>
             current_tick' = current_tick + 1
       /\ pc \in {"idle", "retain"} =>
             <<board, board_buf, chunks>>' = <<board, board_buf, chunks>>
       /\ (pc = "retain" /\ retain_todo # <<>> /\ retain_todo' # retain_todo) =>
             LET c == Head(retain_todo)
             IN clients[c].disconnected =>
                   /\ c \notin DOMAIN clients'
                   /\ \A k \in 1..Len(clients[c].events) :
                         clients[c].events[k] \in dropped'
       /\ (pc = "drain" /\ pc' # pc) =>
             \A x \in 0..(SIZE_X - 1), z \in 0..(SIZE_Z - 1) :
                board'[x + z * SIZE_X] =
                    (board[x + z * SIZE_X] \/ <<x, z>> \in AcceptedCells(clients))
       /\ (pc = "cadence" /\ pc' = "swap") =>
             /\ board' = board
             /\ \A x \in 0..(SIZE_X - 1), z \in 0..(SIZE_Z - 1) :
                   board_buf'[x + z * SIZE_X] = RefNext(board, x, z)]_vars

\* A session was reaped in the fifth tick with a digging on the board still
\* queued: the step of that tick has read a board where the cell of an
\* earlier digging lives and the cell of the queued one does not.
C14_Witness ==
    /\ pc = "swap"
    /\ current_tick = 4
    /\ board = BoardOf({<<0, 0>>})
    /\ board_buf = EmptyBoard
    /\ [kind |-> "Digging", position |-> <<SIZE_X - 1, BOARD_Y, 0>>] \in dropped

\* C15: the step leaves board as it is and gives every cell of board_buf,
\* once, the value the closure computes for it from board alone: the outcome
\* is the same for every order of the cells and for whatever board_buf held
\* before, and the boards are exchanged only after that, with every cell of
\* board_buf written.
C15_StepReadsBoardOnly ==
    /\ [](pc = "swap" => \A i \in Cells : board_buf[i] = NextCell(board, i))
    /\ [][/\ (pc = "cadence" /\ pc' = "swap") =>
                /\ board' = board
                /\ \A order \in StepOrders :
                      /\ Len(order) = Cardinality(Cells)
                      /\ {order[k] : k \in 1..Len(order)} = Cells
                      /\ StepCells(board, board_buf, order) = board_buf'
                      /\ StepCells(board, [i \in Cells |-> ~board_buf[i]], order)
                            = board_buf'
          /\ board_buf' # board_buf => pc \in {"cadence", "swap"}
          /\ (pc = "swap" /\ pc' # pc) =>
                /\ board' = board_buf
                /\ board_buf' = board]_vars

\* The second step of a run is done and the boards are not yet exchanged:
\* cells have died and cells were born, over what the step before had left in
\* board_buf.
C15_Witness ==
    /\ pc = "swap"
    /\ current_tick = 4
    /\ \E i, j \in Cells :
          /\ board[i] /\ ~board_buf[i]
          /\ ~board[j] /\ board_buf[j]

\* The block the world shows for cell (x, z) of the board, at height y of
\* the chunks.
BlockAt(ch, x, y, z) == ch[<<x \div CHUNK, z \div CHUNK>>][<<x % CHUNK, y, z % CHUNK>>]

\* C16: when a stepping tick returns, the block of every cell (x, z) at the
\* board's height is GRASS_BLOCK if the cell lives in the generation just
\* computed and DIRT if not; from then until the next step is under way the
\* blocks show that one generation, the successor of the one kept in
\* board_buf, whole, whatever the diggings taken since.
C16_BlocksShowOneGeneration ==
    /\ [](/\ pc \in {"idle", "retain", "drain", "cadence"}
          /\ current_tick >= 1
          => \A x \in 0..(SIZE_X - 1), z \in 0..(SIZE_Z - 1) :
                /\ BlockAt(chunks, x, BoardHeight, z) \in {"GRASS_BLOCK", "DIRT"}
                /\ BlockAt(chunks, x, BoardHeight, z) = "GRASS_BLOCK"
                      <=> RefNext(board_buf, x, z)
                /\ BlockAt(chunks, x, BoardHeight, z) = "GRASS_BLOCK"
                      => board[x + z * SIZE_X])
    /\ [][(pc = "materialize" /\ pc' # pc) =>
             /\ pc' = "idle"
             /\ board' = board
             /\ \A x \in 0..(SIZE_X - 1), z \in 0..(SIZE_Z - 1) :
                   BlockAt(chunks', x, BoardHeight, z) =
                       (IF board[x + z * SIZE_X] THEN "GRASS_BLOCK" ELSE "DIRT")]_vars

\* After the second stepping tick the blocks show a generation with a live
\* cell in the last row and none in the last column.
C16_Witness ==
    /\ pc = "idle"
    /\ current_tick = 5
    /\ \E x \in 0..(SIZE_X - 1) :
          BlockAt(chunks, x, BoardHeight, SIZE_Z - 1) = "GRASS_BLOCK"
    /\ \A z \in 0..(SIZE_Z - 1) :
          BlockAt(chunks, SIZE_X - 1, BoardHeight, z) = "DIRT"

\* C17: a step of update() changes a block only in a chunk of the board, only
\* at the board's height and only where chunk * 16 + local lies on the board:
\* the cells of an edge chunk past the board, every other height and the
\* chunks of the margin stay as init() made them.
C17_WritesOnlyBoardCells ==
    /\ [](pc # "boot" =>
            \A p \in DOMAIN chunks, l \in LocalCells :
               (\/ p[1] \notin 0..(DivCeil(SIZE_X, CHUNK) - 1)
                \/ p[2] \notin 0..(DivCeil(SIZE_Z, CHUNK) - 1)
                \/ p[1] * CHUNK + l[1] >= SIZE_X
                \/ p[2] * CHUNK + l[3] >= SIZE_Z
                \/ l[2] # BOARD_Y - min_y)
               => chunks[p][l] = "AIR")
    /\ [][pc # "boot" =>
            \A p \in DOMAIN chunks, l \in LocalCells :
               chunks'[p][l] # chunks[p][l] =>
                  /\ pc = "materialize"
                  /\ p[1] * CHUNK + l[1] \in 0..(SIZE_X - 1)
                  /\ p[2] * CHUNK + l[3] \in 0..(SIZE_Z - 1)
                  /\ l[2] = BOARD_Y - min_y]_vars

\* Two materializations have run: in the last chunk of the board the first
\* cell shows a live cell, the last one, which lies past the board, is
\* untouched, and so is the block above the live cell.
C17_Witness ==
    /\ pc = "idle"
    /\ current_tick = 5
    /\ LET last == <<DivCeil(SIZE_X, CHUNK) - 1, DivCeil(SIZE_Z, CHUNK) - 1>>
       IN /\ chunks[last][<<0, BoardHeight, 0>>] = "GRASS_BLOCK"
          /\ chunks[last][<<CHUNK - 1, BoardHeight, CHUNK - 1>>] = "AIR"
          /\ chunks[last][<<0, BoardHeight + 1, 0>>] = "AIR"

\* C18: the mutex is held exactly from the lock() of update() to its return,
\* early or not, so that every phase that reads or writes board or board_buf
\* runs under it; it is taken once per call, by a path that does not hold it,
\* and so lock() never blocks; no step of join() waits for it.
C18_BoardsUnderLock ==
    /\ [](/\ locked <=> pc \in {"drain", "cadence", "swap", "materialize"}
          /\ (pc = "retain" /\ retain_todo = <<>>) => ENABLED LockState
          /\ \A c \in Ids :
                /\ (pc # "boot" /\ join_pc[c] = "idle") => ENABLED JoinLoad(c)
                /\ join_pc[c] = "loaded" => ENABLED (JoinCas(c) \/ JoinFull(c)))
    /\ [][/\ <<board, board_buf>>' # <<board, board_buf>> => locked
          /\ (~locked /\ locked') => (pc = "retain" /\ pc' = "drain")
          /\ (locked /\ ~locked') =>
                (pc \in {"cadence", "materialize"} /\ pc' = "idle")
          /\ (pc \notin {"boot", "idle"} /\ pc' = "idle") => ~locked']_vars

\* The mutex is held again after an early return has released it, the drain
\* has written the board under it, and a candidate's join can take its first
\* step.
C18_Witness ==
    /\ locked
    /\ pc = "cadence"
    /\ current_tick = 2
    /\ board # EmptyBoard
    /\ \E c \in Ids : join_pc[c] = "idle" /\ ENABLED JoinLoad(c)

\* C19: the coordinates the step takes from a buffer index i, i % SIZE_X and
\* i / SIZE_Z, are on the board and give i back as cx + cz * SIZE_X, every
\* neighbour index is one of the buffer, and cell i of board_buf gets the
\* next state of the cell that the drain and the materialization address as
\* x + z * SIZE_X.
C19_IndexRoundTrip ==
    \A i \in Cells :
        LET cx == CellX(i)
            cz == CellZ(i)
        IN /\ cx \in 0..(SIZE_X - 1)
           /\ cz \in 0..(SIZE_Z - 1)
           /\ cx + cz * SIZE_X = i
           /\ \A x \in (cx - 1)..(cx + 1), z \in (cz - 1)..(cz + 1) :
                 NeighbourIndex(x, z) \in DOMAIN board
           /\ \A x \in 0..(SIZE_X - 1), z \in 0..(SIZE_Z - 1) :
                 (x + z * SIZE_X = i /\ pc = "swap") =>
                    /\ x = cx /\ z = cz
                    /\ board_buf[i] = RefNext(board, x, z)

\* A blinker along the first row has turned: the step has written a birth
\* into the last row and a death into the first.
C19_Witness ==
    /\ pc = "swap"
    /\ board = Blinker(<<0, 0>>, "h")
    /\ board_buf[0 + (SIZE_Z - 1) * SIZE_X]
    /\ ~board_buf[(SIZE_X - 1) + 0 * SIZE_X]

\* C20: the drain never takes a live cell from the board, and changes none
\* when no digging is queued; no event of any kind, applied to the board as
\* it is, kills a cell, and one that is no digging changes none; a live cell
\* dies only where the boards are exchanged after a step.
C20_InputOnlyBringsToLife ==
    /\ [](pc # "boot" =>
            \A e \in Events :
               LET st == ApplyEvent([board |-> board, client |-> NewClient(0)], e)
               IN /\ \A i \in Cells : board[i] => st.board[i]
                  /\ e.kind # "Digging" => st.board = board)
    /\ [][/\ (pc = "drain" /\ pc' # pc) =>
                /\ \A i \in Cells : board[i] => board'[i]
                /\ (\A c \in DOMAIN clients : \A k \in 1..Len(clients[c].events) :
                       clients[c].events[k].kind # "Digging") => board' = board
          /\ (\E i \in Cells : board[i] /\ ~board'[i]) =>
                /\ pc = "swap"
                /\ current_tick % StepCadence = 0
                /\ board' = board_buf]_vars

\* Three ticks without a step have drained a digging each and, before, a
\* movement: two cells live, the first still there after the later drains.
C20_Witness ==
    /\ pc = "cadence"
    /\ current_tick = 3
    /\ board = BoardOf({<<0, 0>>, <<SIZE_X - 1, 0>>})
    /\ \E c \in DOMAIN clients :
          /\ clients[c].created_tick = 0
          /\ clients[c].position \in MovePositions

====
